---------------------------- MODULE Spec2Model ----------------------------
(***************************************************************************)
(* Archive build and restore pipeline of rust-zip.                         *)
(*                                                                         *)
(* File names are sequences of one-character strings, file contents are    *)
(* sequences of byte values, so that extension parsing, envelope naming    *)
(* and lossy UTF-8 decoding are computed as the code computes them.        *)
(***************************************************************************)
EXTENDS Integers, Sequences, FiniteSets, TLC

(***************************************************************************)
(* Bounds of the model.                                                    *)
(***************************************************************************)
\* Largest number of directory entries in a packed source folder.
MaxFiles == 2
\* Largest number of entries in a restored archive.
MaxEntries == 2
\* Largest number of injected I/O failures in one run.
MaxFaults == 1

(***************************************************************************)
(* Strings and paths (std::path::Path on a single path component).         *)
(***************************************************************************)
Dot == <<".">>
BinExt == <<"b", "i", "n">>
PngExt == <<"p", "n", "g">>
JpgExt == <<"j", "p", "g">>
JpegExt == <<"j", "p", "e", "g">>
GifExt == <<"g", "i", "f">>
TxtExt == <<"t", "x", "t">>
JsonExt == <<"j", "s", "o", "n">>
DatExt == <<"d", "a", "t">>
Mp4Ext == <<"m", "p", "4">>
AviExt == <<"a", "v", "i">>
MovExt == <<"m", "o", "v">>
Mp3Ext == <<"m", "p", "3">>
WavExt == <<"w", "a", "v">>

None == [some |-> FALSE, v |-> <<>>]
Some(s) == [some |-> TRUE, v |-> s]

\* str::rfind: the last position of character c in s, 0 when absent.
RFind(s, c) ==
    LET idx == {i \in 1..Len(s) : s[i] = c}
    IN  IF idx = {} THEN 0 ELSE CHOOSE i \in idx : \A j \in idx : j <= i

\* str::ends_with
EndsWith(s, t) ==
    /\ Len(t) <= Len(s)
    /\ SubSeq(s, Len(s) - Len(t) + 1, Len(s)) = t

\* Path::extension: the text after the last dot, unless the name has no dot
\* or its only dot is the first character.
Extension(name) ==
    LET p == RFind(name, ".")
    IN  IF name = <<".", ".">> \/ p = 0 \/ p = 1 THEN None
        ELSE Some(SubSeq(name, p + 1, Len(name)))

\* Path::file_stem: the text before the last dot, the whole name when
\* Path::extension is None.
FileStem(name) ==
    LET p == RFind(name, ".")
    IN  IF name = <<".", ".">> \/ p = 0 \/ p = 1 THEN name
        ELSE SubSeq(name, 1, p - 1)

\* .and_then(OsStr::to_str).unwrap_or_default()
ExtOrDefault(name) == Extension(name).v

(***************************************************************************)
(* Entry names as paths.  A name is split at "/" into components as        *)
(* Path::components does (empty components dropped); output_folder.join    *)
(* of a name is located by walking the components from the output folder.  *)
(***************************************************************************)
Sep == "/"
DotDot == <<".", ".">>

RECURSIVE Split(_, _, _)
Split(s, cur, acc) ==
    IF s = <<>>
    THEN IF cur = <<>> THEN acc ELSE Append(acc, cur)
    ELSE IF Head(s) = Sep
         THEN Split(Tail(s), <<>>, IF cur = <<>> THEN acc ELSE Append(acc, cur))
         ELSE Split(Tail(s), Append(cur, Head(s)), acc)

\* Path::components, without the root.
Components(name) == Split(name, <<>>, <<>>)

\* Path::has_root
HasRoot(name) == name # <<>> /\ Head(name) = Sep

\* Path::file_name: the last component, when it is a normal one.
FileName(name) ==
    LET c == Components(name)
    IN  IF c = <<>> \/ c[Len(c)] = DotDot THEN <<>> ELSE c[Len(c)]

\* The depth reached by the walk of enclosed_name, -1 once a ".." would
\* leave the starting folder (depth.checked_sub(1)?).
RECURSIVE Depth(_, _)
Depth(c, d) ==
    IF c = <<>> THEN d
    ELSE IF Head(c) = DotDot
         THEN IF d = 0 THEN -1 ELSE Depth(Tail(c), d - 1)
         ELSE IF Head(c) = Dot THEN Depth(Tail(c), d)
              ELSE Depth(Tail(c), d + 1)

\* A reader that hands out every stored name as it is.
enclosed_name_unchecked(name) == Some(name)

\* ZipFile::enclosed_name: None for a name with a root and for one whose
\* ".." components lead out of the folder it is joined to.
enclosed_name(name) ==
    IF HasRoot(name) \/ Depth(Components(name), 0) < 0 THEN None ELSE Some(name)

\* Where output_folder.join(name) lies: the ".." left over after cancelling
\* (ups) and the components below that point (down).
RECURSIVE Walk(_, _, _)
Walk(c, ups, down) ==
    IF c = <<>> THEN [ups |-> ups, down |-> down]
    ELSE IF Head(c) = DotDot
         THEN IF down = <<>> THEN Walk(Tail(c), ups + 1, down)
              ELSE Walk(Tail(c), ups, SubSeq(down, 1, Len(down) - 1))
         ELSE IF Head(c) = Dot THEN Walk(Tail(c), ups, down)
              ELSE Walk(Tail(c), ups, Append(down, Head(c)))

RECURSIVE Join(_)
Join(c) ==
    IF c = <<>> THEN <<>>
    ELSE IF Len(c) = 1 THEN c[1] ELSE c[1] \o <<Sep>> \o Join(Tail(c))

\* The file output_folder.join(name) names, written from the output folder:
\* a name with a root replaces the folder (PathBuf::join).
Located(name) ==
    LET w == Walk(Components(name), 0, <<>>)
    IN  IF HasRoot(name) THEN <<Sep>> \o Join(w.down)
        ELSE Join([i \in 1..w.ups |-> DotDot] \o w.down)

\* Whether a located file lies in the output folder or below it.
Inside(file) ==
    /\ ~HasRoot(file)
    /\ Walk(Components(file), 0, <<>>).ups = 0
    /\ Components(file) # <<>>

\* Whether every folder on the way to the file exists: no restorer but that
\* of main.rs creates a folder below the output folder, and the folders
\* above it exist.
ParentExists(name) ==
    LET c == Components(name)
    IN  \A i \in 1..(Len(c) - 1) : c[i] \in {DotDot, Dot}

\* Whether async_fs::write finds the folder to write into: a platform that
\* walks the path asks for every folder named in it, one that cancels
\* "d/.." first asks only for those of the located file.
WriteFinds(name) == {ParentExists(name), ParentExists(Located(name))}

(***************************************************************************)
(* Codec Selector.                                                         *)
(***************************************************************************)
\* A selector that passes every level through.
get_compression_method_unclamped(alg, lvl) ==
    IF alg \in {"Zstd", "Bzip2", "Deflated"}
    THEN [ok |-> TRUE, method |-> alg, level |-> lvl]
    ELSE [ok |-> FALSE, method |-> "none", level |-> 0]

\* A selector that falls back to Deflated at level 6 for an unknown name.
get_compression_method_lenient(alg, lvl) ==
    [ok |-> TRUE,
     method |-> IF alg \in {"Zstd", "Bzip2"} THEN alg ELSE "Deflated",
     level |-> CASE alg = "Zstd" -> (IF lvl >= -7 /\ lvl <= 22 THEN lvl ELSE 3)
                 [] alg \in {"Bzip2", "Deflated"} ->
                       (IF lvl >= 0 /\ lvl <= 9 THEN lvl ELSE 6)
                 [] OTHER -> 6]

get_compression_method(alg, lvl) ==
    CASE alg = "Zstd" ->
            [ok |-> TRUE, method |-> "Zstd",
             level |-> IF lvl >= -7 /\ lvl <= 22 THEN lvl ELSE 3]
      [] alg = "Bzip2" ->
            [ok |-> TRUE, method |-> "Bzip2",
             level |-> IF lvl >= 0 /\ lvl <= 9 THEN lvl ELSE 6]
      [] alg = "Deflated" ->
            [ok |-> TRUE, method |-> "Deflated",
             level |-> IF lvl >= 0 /\ lvl <= 9 THEN lvl ELSE 6]
      [] OTHER -> [ok |-> FALSE, method |-> "none", level |-> 0]

\* The copy of the function in main.rs.
get_compression_method_main(alg, lvl) ==
    CASE alg = "Zstd" ->
            [ok |-> TRUE, method |-> "Zstd",
             level |-> IF lvl >= -7 /\ lvl <= 22 THEN lvl ELSE 3]
      [] alg = "Bzip2" ->
            [ok |-> TRUE, method |-> "Bzip2",
             level |-> IF lvl >= 0 /\ lvl <= 9 THEN lvl ELSE 6]
      [] alg = "Deflated" ->
            [ok |-> TRUE, method |-> "Deflated",
             level |-> IF lvl >= 0 /\ lvl <= 9 THEN lvl ELSE 6]
      [] OTHER -> [ok |-> FALSE, method |-> "none", level |-> 0]

(***************************************************************************)
(* Format Classifier, pack side.                                           *)
(***************************************************************************)
FileType == {"Image", "Video", "Audio", "Text", "Other"}

get_file_type(ext) ==
    CASE ext \in {PngExt, JpgExt, GifExt, JpegExt} -> "Image"
      [] ext \in {Mp4Ext, AviExt, MovExt} -> "Video"
      [] ext \in {Mp3Ext, WavExt} -> "Audio"
      [] ext = TxtExt -> "Text"
      [] OTHER -> "Other"

file_type_matches(name, ft) ==
    LET e == Extension(name)
    IN  CASE ft = "Image" -> e.some /\ e.v \in {PngExt, JpgExt}
          [] ft = "Video" -> e.some /\ e.v \in {Mp4Ext, AviExt}
          [] ft = "Audio" -> e.some /\ e.v \in {Mp3Ext, WavExt}
          [] ft = "Text" -> e.some /\ e.v = TxtExt
          [] OTHER -> TRUE

(***************************************************************************)
(* Binary Envelope Codec, pack side.  A directory entry is a record        *)
(* [name, kind, data, readable]; the result of a conversion is             *)
(* [ok, panic, name, data]: the intermediate file written and its bytes,   *)
(* or an error returned, or a panic.                                       *)
(***************************************************************************)
ConvErr == [ok |-> FALSE, panic |-> FALSE, name |-> <<>>, data |-> <<>>]
ConvPanic == [ok |-> FALSE, panic |-> TRUE, name |-> <<>>, data |-> <<>>]
ConvOk(n, d) == [ok |-> TRUE, panic |-> FALSE, name |-> n, data |-> d]

\* A unit of a file name that is no valid Unicode (a byte that is not UTF-8
\* on Unix, an unpaired surrogate on Windows), and OsStr::to_str, which
\* gives None for a name holding one.
BadUnit == "\\xFF"
to_str(name) ==
    IF \A k \in DOMAIN name : name[k] # BadUnit THEN Some(name) ELSE None

\* The image library's verdict on a byte buffer (image::load_from_memory).
IsImage(b) == Len(b) > 0 /\ b[1] = 137

\* An envelope codec that decodes the image before it wraps it.
image_to_binary_file_checked(f) ==
    IF ~f.readable \/ Len(f.data) = 0 \/ ~IsImage(f.data)
    THEN ConvErr
    ELSE IF ~to_str(f.name).some THEN ConvPanic
    ELSE ConvOk(f.name \o Dot \o BinExt, f.data)

\* File::open, then a memory map (which refuses a file of length zero),
\* then file_name().unwrap().to_str().unwrap(), then the bytes written
\* verbatim to <file name>.bin.
image_to_binary_file(f) ==
    IF ~f.readable \/ Len(f.data) = 0 THEN ConvErr
    ELSE IF ~to_str(f.name).some THEN ConvPanic
    ELSE ConvOk(f.name \o Dot \o BinExt, f.data)

text_to_binary_file(f) ==
    IF ~f.readable \/ Len(f.data) = 0 THEN ConvErr
    ELSE IF ~to_str(f.name).some THEN ConvPanic
    ELSE ConvOk(f.name \o Dot \o BinExt, f.data)

convert_to_target_format(f) ==
    LET target_file_type == get_file_type(ExtOrDefault(f.name))
    IN  CASE target_file_type = "Image" -> image_to_binary_file(f)
          [] target_file_type = "Text" -> text_to_binary_file(f)
          [] OTHER -> IF ~f.readable THEN ConvErr
                      ELSE ConvOk(f.name, f.data)


(***************************************************************************)
(* Inputs of a pack run.                                                   *)
(***************************************************************************)
PngBytes == <<137, 80>>
BrokenBytes == <<66, 65, 68>>

a_png == [name |-> <<"a">> \o Dot \o PngExt, kind |-> "file",
          data |-> PngBytes, readable |-> TRUE]
a_txt == [name |-> <<"a">> \o Dot \o TxtExt, kind |-> "file",
          data |-> <<72, 105>>, readable |-> TRUE]
a_json == [name |-> <<"a">> \o Dot \o JsonExt, kind |-> "file",
           data |-> <<123, 125>>, readable |-> TRUE]
a_png_bin == [name |-> <<"a">> \o Dot \o PngExt \o Dot \o BinExt, kind |-> "file",
              data |-> <<1>>, readable |-> TRUE]
e_txt == [name |-> <<"e">> \o Dot \o TxtExt, kind |-> "file",
          data |-> <<>>, readable |-> TRUE]
k_dat == [name |-> <<"k">> \o Dot \o DatExt, kind |-> "file",
          data |-> <<7, 8>>, readable |-> FALSE]
u_dat == [name |-> <<BadUnit>> \o Dot \o DatExt, kind |-> "file",
          data |-> <<9>>, readable |-> TRUE]
sub_dir == [name |-> <<"s", "u", "b">>, kind |-> "dir",
            data |-> <<>>, readable |-> TRUE]

u_png == [name |-> <<BadUnit>> \o Dot \o PngExt, kind |-> "file",
          data |-> PngBytes, readable |-> TRUE]

SourceCatalogue ==
    {a_png, a_txt, a_json, a_png_bin, e_txt, k_dat, u_dat, sub_dir}

\* The folders of the partial-failure scenario: three valid PNG files and one
\* file named broken.png whose bytes are no image (some bytes, or none).
broken_png == <<"b", "r", "o", "k", "e", "n">> \o Dot \o PngExt

ValidPngs ==
    {[name |-> <<n>> \o Dot \o PngExt, kind |-> "file",
      data |-> PngBytes, readable |-> TRUE] : n \in {"a", "b", "c"}}

BrokenFolders ==
    {ValidPngs \cup {[name |-> broken_png, kind |-> "file", data |-> d,
                      readable |-> TRUE]} : d \in {BrokenBytes, <<>>}}

CompressionSpecs == {[algorithm |-> "Zstd", level |-> 99],
                     [algorithm |-> "Bzip2", level |-> 5],
                     [algorithm |-> "Bogus", level |-> 3]}

PackModes == {"convert", "direct", "binary"}

\* The conversion output folder, created inside the source folder before
\* the folder is listed, is one of the listed entries.
OutputFolderEntry(m) ==
    CASE m = "convert" ->
            {[name |-> <<"o", "u", "t", "p", "u", "t">>, kind |-> "dir",
              data |-> <<>>, readable |-> TRUE]}
      [] m = "binary" ->
            {[name |-> <<"b", "i", "n", "a", "r", "y", "_", "o", "u", "t", "p", "u", "t">>,
              kind |-> "dir", data |-> <<>>, readable |-> TRUE]}
      [] OTHER -> {}

NoWorker == <<>>

VARIABLES
    mode,         \* which packer runs
    file_type,    \* the requested FileType (convert mode)
    cspec,        \* the requested compression algorithm and level
    entries,      \* the listed directory entries, keyed by name
    ppc,          \* the packer: "setup", "running", "returned"
    packResult,   \* "none", "Ok", "Err", "Panic"
    wpc,          \* each worker's position
    wout,         \* each worker's outcome
    wfile,        \* each worker's file_name / output_file_path
    wopts,        \* each worker's resolved FileOptions
    outDir,       \* the conversion output folder: name -> bytes
    zipLock,      \* the holder of the Mutex<ZipWriter>, or NoWorker
    zipEntries,   \* the archive being written
    faults,       \* injected I/O failures so far
    rkind,        \* which restorer runs
    archive,      \* the archive being restored
    rpc,          \* the restorer: "idle", "begin", "loop" or "par", "join",
                  \* "sweep", "done"
    ridx,         \* the loop index i (entries are numbered from 1 here)
    rresult,      \* "none", "Ok", "Err", "Panic"
    rerr,         \* the step whose error the restorer returned
    tasks,        \* the spawned units of work, one slot per entry
    outFs,        \* the output folder: name -> bytes
    binDir,       \* the binary_files subfolder of the output folder
    delEnv,       \* how the platform answers remove_file
    outExists,    \* whether the output folder exists
    arcLock,      \* the index whose closure holds the Mutex<ZipArchive>, or 0
    call,         \* a single function called on its own, and its arguments
    ret           \* what that call returned

packVars == <<mode, file_type, cspec, entries, ppc, packResult, wpc, wout,
              wfile, wopts, outDir, zipLock, zipEntries>>
restoreVars == <<rkind, archive, rpc, ridx, rresult, rerr, tasks, outFs,
                 binDir, delEnv, outExists, arcLock>>
callVars == <<call, ret>>
vars == <<packVars, restoreVars, faults, callVars>>

NoBinDir == [exists |-> FALSE, files |-> 0, subdirs |-> 0]

\* No function is called on its own.
NoFile == [name |-> <<>>, kind |-> "file", data |-> <<>>, readable |-> FALSE]
NoCall == [fn |-> "none", alg |-> "", lvl |-> 0, name |-> <<>>, ft |-> "Other",
           file |-> NoFile]
NoRet == [set |-> FALSE, v |-> <<>>]
CallIdle == call = NoCall /\ ret = NoRet

\* No restore has started.
RestoreIdle ==
    /\ rkind = "none"
    /\ archive = <<>>
    /\ rpc = "idle"
    /\ ridx = 1
    /\ rresult = "none"
    /\ rerr = "none"
    /\ tasks = <<>>
    /\ outFs = <<>>
    /\ binDir = NoBinDir
    /\ delEnv = "ok"
    /\ outExists = FALSE
    /\ arcLock = 0

Names(dir) == {f.name : f \in dir}
EntryOf(n) == CHOOSE f \in entries : f.name = n
Workers == Names(entries)

MayFail == IF faults < MaxFaults THEN BOOLEAN ELSE {FALSE}
Bump(fail) == IF fail THEN faults + 1 ELSE faults

InitPackOn(dirs, modes, fts, specs) ==
    /\ mode \in modes
    /\ file_type \in (IF mode = "convert" THEN fts ELSE {"Other"})
    /\ cspec \in specs
    /\ \E d \in dirs : entries = d \cup OutputFolderEntry(mode)
    /\ ppc = "setup"
    /\ packResult = "none"
    /\ wpc = [n \in Names(entries) |-> "new"]
    /\ wout = [n \in Names(entries) |-> "none"]
    /\ wfile = [n \in Names(entries) |-> <<>>]
    /\ wopts = [n \in Names(entries) |-> [method |-> "none", level |-> 0]]
    /\ outDir = <<>>
    /\ zipLock = NoWorker
    /\ zipEntries = <<>>
    /\ faults = 0
    /\ RestoreIdle
    /\ CallIdle

SourceDirs ==
    {d \in SUBSET SourceCatalogue : Cardinality(d) <= MaxFiles}

\* create_dir_all(output_folder)? and read_dir(folder_path)?
PackSetup ==
    /\ ppc = "setup"
    /\ \E fail \in MayFail :
          /\ faults' = Bump(fail)
          /\ IF fail
             THEN ppc' = "returned" /\ packResult' = "Err"
             ELSE ppc' = "running" /\ packResult' = packResult
    /\ UNCHANGED <<mode, file_type, cspec, entries, wpc, wout, wfile, wopts,
                   outDir, zipLock, zipEntries>>
    /\ UNCHANGED <<restoreVars, callVars>>

\* A closure that takes every directory entry, regular file or not.
SelectedEveryEntry(f) == TRUE

\* Whether the closure takes the entry at all.
Selected(f) ==
    CASE mode = "convert" -> f.kind = "file" /\ file_type_matches(f.name, file_type)
      [] mode = "binary" ->
            /\ f.kind = "file"
            /\ Extension(f.name).some
            /\ Extension(f.name).v \in {PngExt, JpgExt}
      [] OTHER -> f.kind = "file"

\* The file the closure will copy into the archive.
Prepared(f) ==
    CASE mode = "convert" -> convert_to_target_format(f)
      [] mode = "binary" -> image_to_binary_file(f)
      [] OTHER -> ConvOk(f.name, f.data)

Put(dir, n, d) == [x \in DOMAIN dir \cup {n} |-> IF x = n THEN d ELSE dir[x]]

\* The head of the closure: the file test, the conversion, and the name of
\* the file to archive, file_name().unwrap().to_str().unwrap(), which
\* panics on a name that is no valid Unicode.
WorkerConvert(w) ==
    /\ ppc = "running"
    /\ wpc[w] = "new"
    /\ LET f == EntryOf(w)
           r == Prepared(f)
       IN  IF ~Selected(f)
           THEN /\ wpc' = [wpc EXCEPT ![w] = "done"]
                /\ wout' = [wout EXCEPT ![w] = "skipped"]
                /\ UNCHANGED <<wfile, outDir, faults>>
           ELSE \E fail \in (IF mode = "direct" THEN {FALSE} ELSE MayFail) :
                   /\ faults' = Bump(fail)
                   /\ IF fail \/ ~r.ok
                      THEN /\ wpc' = [wpc EXCEPT ![w] = "done"]
                           /\ wout' = [wout EXCEPT ![w] =
                                 IF ~fail /\ r.panic THEN "panic" ELSE "convert_err"]
                           /\ UNCHANGED <<wfile, outDir>>
                      ELSE IF ~to_str(r.name).some
                      THEN /\ wpc' = [wpc EXCEPT ![w] = "done"]
                           /\ wout' = [wout EXCEPT ![w] = "panic"]
                           /\ outDir' = IF mode = "direct" THEN outDir
                                        ELSE Put(outDir, r.name, r.data)
                           /\ wfile' = wfile
                      ELSE /\ wpc' = [wpc EXCEPT ![w] = "converted"]
                           /\ wfile' = [wfile EXCEPT ![w] = r.name]
                           /\ outDir' = IF mode = "direct" THEN outDir
                                        ELSE Put(outDir, r.name, r.data)
                           /\ wout' = wout
    /\ UNCHANGED <<mode, file_type, cspec, entries, ppc, packResult, wopts,
                   zipLock, zipEntries>>
    /\ UNCHANGED <<restoreVars, callVars>>

\* A closure that takes the archive writer lock before it resolves the codec.
WorkerResolveUnderLock(w) ==
    /\ wpc[w] = "converted"
    /\ zipLock = NoWorker
    /\ zipLock' = w
    /\ wpc' = [wpc EXCEPT ![w] = "resolved"]
    /\ UNCHANGED <<mode, file_type, cspec, entries, ppc, packResult, wout,
                   wfile, wopts, outDir, zipEntries, faults>>
    /\ UNCHANGED <<restoreVars, callVars>>

\* get_compression_method, once per entry.
WorkerResolve(w) ==
    /\ wpc[w] = "converted"
    /\ LET r == get_compression_method(cspec.algorithm, cspec.level)
       IN  IF r.ok
           THEN /\ wpc' = [wpc EXCEPT ![w] = "resolved"]
                /\ wopts' = [wopts EXCEPT ![w] = [method |-> r.method, level |-> r.level]]
                /\ wout' = wout
           ELSE /\ wpc' = [wpc EXCEPT ![w] = "done"]
                /\ wout' = [wout EXCEPT ![w] = "codec_err"]
                /\ wopts' = wopts
    /\ UNCHANGED <<mode, file_type, cspec, entries, ppc, packResult, wfile,
                   outDir, zipLock, zipEntries, faults>>
    /\ UNCHANGED <<restoreVars, callVars>>

\* A lock that never blocks.
LockFreeAlways == TRUE

\* zip.lock().unwrap(): blocks until the mutex is free.
LockFree == zipLock = NoWorker

WorkerLock(w) ==
    /\ wpc[w] = "resolved"
    /\ LockFree
    /\ zipLock' = w
    /\ wpc' = [wpc EXCEPT ![w] = "locked"]
    /\ UNCHANGED <<mode, file_type, cspec, entries, ppc, packResult, wout,
                   wfile, wopts, outDir, zipEntries, faults>>
    /\ UNCHANGED <<restoreVars, callVars>>

EntryNames(z) == {z[i].name : i \in 1..Len(z)}

\* zip_guard.start_file: a name the archive already holds is refused.
\* A guard that outlives its closure.
DroppedNever(w) == w

\* The holder of the Mutex once the closure of w has dropped zip_guard: the
\* guard is a local of the closure, dropped at its end and at every return
\* inside it.
Dropped(w) == NoWorker

WorkerStartFile(w) ==
    /\ wpc[w] = "locked"
    /\ \E fail \in MayFail :
          /\ faults' = Bump(fail)
          /\ IF fail \/ wfile[w] \in EntryNames(zipEntries)
             THEN /\ wpc' = [wpc EXCEPT ![w] = "done"]
                  /\ wout' = [wout EXCEPT ![w] = "start_err"]
                  /\ zipLock' = Dropped(w)
                  /\ zipEntries' = zipEntries
             ELSE /\ wpc' = [wpc EXCEPT ![w] = "started"]
                  /\ zipEntries' = Append(zipEntries,
                        [name |-> wfile[w], data |-> <<>>, src |-> w,
                         method |-> wopts[w].method, level |-> wopts[w].level])
                  /\ UNCHANGED <<wout, zipLock>>
    /\ UNCHANGED <<mode, file_type, cspec, entries, ppc, packResult, wfile,
                   wopts, outDir>>
    /\ UNCHANGED <<restoreVars, callVars>>

\* The file opened for the copy: the source file (direct mode) or the
\* intermediate file in the conversion output folder.
CopySource(w) ==
    IF mode = "direct"
    THEN [ok |-> EntryOf(w).readable, data |-> EntryOf(w).data]
    ELSE IF wfile[w] \in DOMAIN outDir
         THEN [ok |-> TRUE, data |-> outDir[wfile[w]]]
         ELSE [ok |-> FALSE, data |-> <<>>]

\* The bytes io::copy adds to the entry being written (the last one started).
WriteCurrent(z, d) == [z EXCEPT ![Len(z)].data = z[Len(z)].data \o d]

\* File::open, io::copy, and the guard dropped at the end of the closure.
WorkerCopy(w) ==
    /\ wpc[w] = "started"
    /\ LET s == CopySource(w)
       IN  \E failOpen \in MayFail :
             IF failOpen \/ ~s.ok
             THEN /\ faults' = Bump(failOpen)
                  /\ wout' = [wout EXCEPT ![w] = "open_err"]
                  /\ zipEntries' = zipEntries
             ELSE \E copied \in (IF faults < MaxFaults THEN 0..Len(s.data)
                                 ELSE {Len(s.data)}) :
                     \E failCopy \in (IF copied < Len(s.data) THEN {TRUE} ELSE MayFail) :
                        /\ faults' = Bump(failCopy)
                        /\ wout' = [wout EXCEPT ![w] = IF failCopy THEN "copy_err" ELSE "added"]
                        /\ zipEntries' = WriteCurrent(zipEntries, SubSeq(s.data, 1, copied))
    /\ wpc' = [wpc EXCEPT ![w] = "done"]
    /\ zipLock' = Dropped(w)
    /\ UNCHANGED <<mode, file_type, cspec, entries, ppc, packResult, wfile,
                   wopts, outDir>>
    /\ UNCHANGED <<restoreVars, callVars>>

\* Some closure has panicked.
Panicked == \E w \in Workers : wout[w] = "panic"

\* A for_each that returns while closures are still running.
PackReturnEarly ==
    /\ ppc = "running"
    /\ ppc' = "returned"
    /\ packResult' = IF Panicked THEN "Panic" ELSE "Ok"
    /\ UNCHANGED <<mode, file_type, cspec, entries, wpc, wout, wfile, wopts,
                   outDir, zipLock, zipEntries, faults>>
    /\ UNCHANGED <<restoreVars, callVars>>

\* par_iter().for_each returns when every closure has returned; then Ok(()).
\* When a closure has panicked, the closures running are still awaited, an
\* entry not yet begun may be left out, and for_each resumes the panic
\* instead of returning.
PackReturn ==
    /\ ppc = "running"
    /\ \A w \in Workers : wpc[w] = "done" \/ (Panicked /\ wpc[w] = "new")
    /\ ppc' = "returned"
    /\ packResult' = IF Panicked THEN "Panic" ELSE "Ok"
    /\ UNCHANGED <<mode, file_type, cspec, entries, wpc, wout, wfile, wopts,
                   outDir, zipLock, zipEntries, faults>>
    /\ UNCHANGED <<restoreVars, callVars>>


(***************************************************************************)
(* Lossy UTF-8 decoding (String::from_utf8_lossy): every maximal invalid   *)
(* prefix of a sequence becomes U+FFFD, encoded EF BF BD.                  *)
(***************************************************************************)
Replacement == <<239, 191, 189>>

IsCont(x) == x >= 128 /\ x <= 191

\* The range the second byte of a sequence led by b1 must lie in.
SecondOk(b1, b2) ==
    CASE b1 = 224 -> b2 >= 160 /\ b2 <= 191
      [] b1 = 237 -> b2 >= 128 /\ b2 <= 159
      [] b1 = 240 -> b2 >= 144 /\ b2 <= 191
      [] b1 = 244 -> b2 >= 128 /\ b2 <= 143
      [] OTHER -> IsCont(b2)

\* The width of the sequence a lead byte announces, 0 for a byte that can
\* lead nothing.
Utf8Width(b1) ==
    CASE b1 < 128 -> 1
      [] b1 >= 194 /\ b1 <= 223 -> 2
      [] b1 >= 224 /\ b1 <= 239 -> 3
      [] b1 >= 240 /\ b1 <= 244 -> 4
      [] OTHER -> 0

\* How many bytes of b, from its first, form a valid prefix of one sequence.
ValidPrefix(b) ==
    LET w == Utf8Width(b[1])
    IN  IF w <= 1 THEN 1
        ELSE IF Len(b) < 2 \/ ~SecondOk(b[1], b[2]) THEN 1
        ELSE IF w = 2 THEN 2
        ELSE IF Len(b) < 3 \/ ~IsCont(b[3]) THEN 2
        ELSE IF w = 3 THEN 3
        ELSE IF Len(b) < 4 \/ ~IsCont(b[4]) THEN 3
        ELSE 4

RECURSIVE from_utf8_lossy(_)
from_utf8_lossy(b) ==
    IF b = <<>> THEN <<>>
    ELSE LET w == Utf8Width(b[1])
             n == ValidPrefix(b)
             rest == SubSeq(b, n + 1, Len(b))
         IN  IF w > 0 /\ n = w
             THEN SubSeq(b, 1, n) \o from_utf8_lossy(rest)
             ELSE Replacement \o from_utf8_lossy(rest)

\* Whether the decoding borrowed the buffer (the bytes were valid UTF-8).
IsUtf8(b) == from_utf8_lossy(b) = b

(***************************************************************************)
(* Binary Envelope Codec, unpack side (text).                              *)
(***************************************************************************)
\* determine_text_format: the format named by the extension, read from the
\* stem when the extension is bin.
determine_text_format(name) ==
    LET e0 == Extension(name)
        stem == FileStem(name)
        pos == RFind(stem, ".")
        e == IF e0 = Some(BinExt) /\ pos > 0
             THEN Some(SubSeq(stem, pos + 1, Len(stem)))
             ELSE e0
    IN  CASE e \in {Some(JsonExt), Some(<<"J", "s", "o", "n">>)} -> Some(JsonExt)
          [] e \in {Some(TxtExt), Some(<<"T", "x", "t">>)} -> Some(TxtExt)
          [] OTHER -> None

\* The name convert_binary_to_text writes its text under.
TextOutputName(name, ext) ==
    LET stem == FileStem(FileName(name))
        cut == IF EndsWith(stem, ext)
               THEN SubSeq(stem, 1, Len(stem) - Len(ext))
               ELSE stem
    IN  cut \o Dot \o ext

Del(dir, n) == [x \in DOMAIN dir \ {n} |-> dir[x]]

\* convert_binary_to_text on the file `name` of the output folder `fs`:
\* the set of outcomes [ok, fs].  Writing the text over the very file that is
\* still memory-mapped has no defined result: the write may go through, may
\* fail leaving the file truncated, or may be refused.
convert_binary_to_text(name, fs) ==
    IF name \notin DOMAIN fs \/ Len(fs[name]) = 0
    THEN {[ok |-> FALSE, fs |-> fs]}
    ELSE LET txt == from_utf8_lossy(fs[name])
             format == determine_text_format(name)
             out == TextOutputName(name, format.v)
             written == [ok |-> TRUE, fs |-> Put(fs, out, txt)]
             truncated == [ok |-> FALSE, fs |-> Put(fs, out, <<>>)]
             refused == [ok |-> FALSE, fs |-> fs]
         IN  IF ~format.some THEN {refused}
             ELSE IF out = name
                  THEN IF IsUtf8(fs[name])
                       THEN {written, truncated, refused}
                       ELSE {written, refused}
                  ELSE {written}

(***************************************************************************)
(* Inputs of a restore.  An archive entry is [name, data, fault]: fault    *)
(* names what is wrong with the stored entry ("access": by_index fails,    *)
(* "name": enclosed_name is None, "read": the bytes do not decompress).    *)
(***************************************************************************)
z_a_txt == [name |-> <<"a">> \o Dot \o TxtExt, data |-> <<72, 105>>, fault |-> "none"]
z_a_json == [name |-> <<"a">> \o Dot \o JsonExt, data |-> <<123, 255>>, fault |-> "none"]
z_e_txt == [name |-> <<"e">> \o Dot \o TxtExt, data |-> <<>>, fault |-> "none"]
z_a_png_bin == [name |-> <<"a">> \o Dot \o PngExt \o Dot \o BinExt,
                data |-> PngBytes, fault |-> "none"]
z_mytxt_txt == [name |-> <<"m", "y", "t", "x", "t">> \o Dot \o TxtExt,
                data |-> <<65>>, fault |-> "none"]
z_my_txt == [name |-> <<"m", "y">> \o Dot \o TxtExt, data |-> <<66>>,
             fault |-> "none"]
z_ajson_json == [name |-> <<"a", "j", "s", "o", "n">> \o Dot \o JsonExt,
                 data |-> <<91, 93>>, fault |-> "none"]
z_r_txt == [name |-> <<"r">> \o Dot \o TxtExt, data |-> <<66>>, fault |-> "read"]
z_x_dat == [name |-> <<"x">> \o Dot \o DatExt, data |-> <<67>>, fault |-> "access"]
z_up_dat == [name |-> <<".", ".", "/", "u">> \o Dot \o DatExt, data |-> <<68>>,
             fault |-> "name"]

ArchiveCatalogue == {z_a_txt, z_a_json, z_e_txt, z_a_png_bin,
                     z_r_txt, z_x_dat, z_up_dat}

Range(q) == {q[i] : i \in 1..Len(q)}

\* Archives of distinct entries of a catalogue, in every order.
ArchivesOf(catalogue) ==
    UNION {{q \in [1..n -> catalogue] :
               \A i, j \in 1..n : i # j => q[i] # q[j]} : n \in 0..MaxEntries}

Archives == ArchivesOf(ArchiveCatalogue)

\* Archives of text entries one of whose names is what the decoder makes of
\* another.
AlikeCatalogue == {z_my_txt, z_mytxt_txt, z_a_json, z_ajson_json}
AlikeArchives == ArchivesOf(AlikeCatalogue)

\* Archives with names that are paths: below a folder, through "..", out of
\* the output folder, from the root.
z_abs_txt == [name |-> <<Sep, "r">> \o Dot \o TxtExt, data |-> <<69>>, fault |-> "name"]
z_d_b_txt == [name |-> <<"d", Sep, "b">> \o Dot \o TxtExt, data |-> <<70>>,
              fault |-> "none"]
z_d_up_c_txt == [name |-> <<"d", Sep>> \o DotDot \o <<Sep, "c">> \o Dot \o TxtExt,
                 data |-> <<71>>, fault |-> "none"]
z_d_up_up_v_txt ==
    [name |-> <<"d", Sep>> \o DotDot \o <<Sep>> \o DotDot \o <<Sep, "v">> \o Dot \o TxtExt,
     data |-> <<72>>, fault |-> "name"]
PathCatalogue == {z_a_txt, z_up_dat, z_abs_txt, z_d_b_txt, z_d_up_c_txt,
                  z_d_up_up_v_txt}
PathArchives == ArchivesOf(PathCatalogue)

RestoreKinds == {"convert", "direct", "images"}

\* The platform and the output folder a restore meets: how remove_file
\* answers, and what binary_files holds before the restore.
RestoreEnvs ==
    {[del |-> d, bin |-> NoBinDir] : d \in {"ok", "busy", "locked", "denied", "busy_denied"}}
    \cup {[del |-> "ok", bin |-> [exists |-> TRUE, files |-> 2, subdirs |-> 0]],
          [del |-> "ok", bin |-> [exists |-> TRUE, files |-> 1, subdirs |-> 1]]}

\* A fresh output folder on a platform that deletes at once.
PlainEnv == [del |-> "ok", bin |-> NoBinDir]

NoTask == [pc |-> "none", name |-> <<>>, buffer |-> <<>>, convOk |-> FALSE,
           attempts |-> 0, delay |-> 0, slept |-> <<>>, removes |-> <<>>,
           touched |-> {}, out |-> "none"]

InitRestoreOn(kinds, archives, envs) ==
    /\ rkind \in kinds
    /\ archive \in archives
    /\ rpc = "begin"
    /\ ridx = 1
    /\ rresult = "none"
    /\ rerr = "none"
    /\ tasks = [i \in 1..Len(archive) |-> NoTask]
    /\ outFs = <<>>
    /\ \E env \in (IF rkind = "convert" THEN envs ELSE {PlainEnv}) :
          binDir = env.bin /\ delEnv = env.del
    /\ outExists = binDir.exists
    /\ arcLock = 0

\* No pack is part of the run.
PackIdle ==
    /\ mode = "none"
    /\ file_type = "Other"
    /\ cspec = [algorithm |-> "none", level |-> 0]
    /\ entries = {}
    /\ ppc = "idle"
    /\ packResult = "none"
    /\ wpc = <<>>
    /\ wout = <<>>
    /\ wfile = <<>>
    /\ wopts = <<>>
    /\ outDir = <<>>
    /\ zipLock = NoWorker
    /\ zipEntries = <<>>

\* An archive that is never taken for empty.
EmptyArchiveNever == FALSE

\* if archive_len == 0
EmptyArchive == Len(archive) = 0

\* create_dir_all(output_folder)?, File::open(zip_path)?, ZipArchive::new?,
\* and the early return on an archive without entries.
RestoreBegin ==
    /\ rpc = "begin"
    /\ \E fail \in (IF faults < MaxFaults THEN {"none", "create_dir", "open"}
                    ELSE {"none"}) :
          /\ faults' = Bump(fail # "none")
          /\ IF fail # "none"
             THEN rpc' = "done" /\ rresult' = "Err" /\ rerr' = fail
             ELSE IF EmptyArchive
                  THEN rpc' = "done" /\ rresult' = "Ok" /\ rerr' = rerr
                  ELSE /\ rpc' = IF rkind = "images" THEN "par" ELSE "loop"
                       /\ rresult' = rresult /\ rerr' = rerr
          /\ outExists' = IF fail = "create_dir" THEN outExists ELSE TRUE
    /\ UNCHANGED <<rkind, archive, ridx, tasks, outFs, binDir, delEnv, arcLock>>
    /\ UNCHANGED <<packVars, callVars>>

\* One iteration of the loop over the entry indices: by_index, enclosed_name,
\* read_to_end, task::spawn.
RestoreEntry ==
    /\ rpc = "loop"
    /\ ridx <= Len(archive)
    /\ LET e == archive[ridx]
           goOn == /\ ridx' = ridx + 1
                   /\ rpc' = rpc
                   /\ UNCHANGED <<rresult, rerr>>
       IN  CASE e.fault = "access" ->
                   IF rkind = "convert"
                   THEN goOn /\ tasks' = tasks
                   ELSE /\ rpc' = "done" /\ rresult' = "Panic" /\ rerr' = "access"
                        /\ UNCHANGED <<ridx, tasks>>
             [] e.fault # "access" /\ ~enclosed_name(e.name).some ->
                   goOn /\ tasks' = tasks
             [] e.fault = "read" /\ enclosed_name(e.name).some ->
                   IF rkind = "convert"
                   THEN goOn /\ tasks' = tasks
                   ELSE /\ rpc' = "done" /\ rresult' = "Err" /\ rerr' = "read"
                        /\ UNCHANGED <<ridx, tasks>>
             [] OTHER ->
                   /\ goOn
                   /\ tasks' = [tasks EXCEPT ![ridx] =
                         [NoTask EXCEPT !.pc = "write", !.name = e.name,
                                        !.buffer = e.data]]
    /\ UNCHANGED <<rkind, archive, outFs, binDir, delEnv, outExists, arcLock, faults>>
    /\ UNCHANGED <<packVars, callVars>>

\* The loop has run over every index.
RestoreLoopEnd ==
    /\ rpc = "loop"
    /\ ridx > Len(archive)
    /\ rpc' = "join"
    /\ UNCHANGED <<rkind, archive, ridx, rresult, rerr, tasks, outFs, binDir,
                   delEnv, outExists, arcLock, faults>>
    /\ UNCHANGED <<packVars, callVars>>

\* The head of a unit of work: async_fs::write, then the match on the
\* extension of the written file.
TaskWrite(i) ==
    /\ tasks[i].pc = "write"
    /\ \E fail \in MayFail, found \in WriteFinds(tasks[i].name) :
          /\ faults' = Bump(fail)
          /\ IF fail \/ ~found
             THEN /\ tasks' = [tasks EXCEPT ![i].pc = "done",
                                  ![i].out = IF rkind = "direct" THEN "panic"
                                             ELSE "write_err"]
                  /\ outFs' = outFs
             ELSE /\ outFs' = Put(outFs, Located(tasks[i].name), tasks[i].buffer)
                  /\ tasks' = [tasks EXCEPT
                        ![i].touched = {Located(tasks[i].name)},
                        ![i].pc = IF rkind = "convert"
                                     /\ ExtOrDefault(tasks[i].name) \in {TxtExt, JsonExt}
                                  THEN "convert" ELSE "done",
                        ![i].out = "written"]
    /\ UNCHANGED <<rkind, archive, rpc, ridx, rresult, rerr, binDir, delEnv, outExists, arcLock>>
    /\ UNCHANGED <<packVars, callVars>>

max_attempts == 5

\* The files a step has created or changed.
Written(before, after) ==
    {n \in DOMAIN after : n \notin DOMAIN before \/ after[n] # before[n]}

\* convert_and_cleanup_json_file, up to the loop: the conversion, whose
\* error (its own, or an I/O failure of the platform) is printed and nothing
\* more.
TaskConvert(i) ==
    /\ tasks[i].pc = "convert"
    /\ \E fail \in MayFail :
          /\ faults' = Bump(fail)
          /\ IF fail
             THEN /\ outFs' = outFs
                  /\ tasks' = [tasks EXCEPT ![i].pc = "remove", ![i].convOk = FALSE,
                                            ![i].attempts = 0, ![i].delay = 100]
             ELSE \E r \in convert_binary_to_text(Located(tasks[i].name), outFs) :
                     /\ outFs' = r.fs
                     /\ tasks' = [tasks EXCEPT
                           ![i].pc = "remove", ![i].convOk = r.ok,
                           ![i].attempts = 0, ![i].delay = 100,
                           ![i].touched = tasks[i].touched \cup Written(outFs, r.fs)]
    /\ UNCHANGED <<rkind, archive, rpc, ridx, rresult, rerr, binDir, delEnv, outExists, arcLock>>
    /\ UNCHANGED <<packVars, callVars>>

\* The platform's answer to remove_file(file_path) at the given attempt.
RemoveOutcome(name, attempts) ==
    CASE name \notin DOMAIN outFs -> "other"
      [] delEnv = "locked" -> "transient"
      [] delEnv = "busy" /\ attempts = 0 -> "transient"
      [] delEnv = "denied" -> "other"
      [] delEnv = "busy_denied" -> IF attempts = 0 THEN "transient" ELSE "other"
      [] OTHER -> "ok"

\* A loop that tries once more than max_attempts.
KeepTryingOnceMore(attempts) == attempts <= max_attempts

\* The loop test: while attempts < max_attempts.
KeepTrying(attempts) == attempts < max_attempts

\* An error of any other kind counted as one more attempt.
OnOtherErrorRetry(attempts) == attempts + 1

\* The arm of any other error: attempts = max_attempts.
OnOtherError(attempts) == max_attempts

\* One turn of the deletion loop of convert_and_cleanup_json_file: one call
\* of remove_file, the sleep of the transient arm, and the loop test.  The
\* calls' results and the delays slept are kept in removes and slept.
TaskRemove(i) ==
    /\ tasks[i].pc = "remove"
    /\ KeepTrying(tasks[i].attempts)
    /\ LET t == tasks[i]
           o == RemoveOutcome(t.name, t.attempts)
           n == IF o = "transient" THEN t.attempts + 1 ELSE OnOtherError(t.attempts)
       IN  IF o = "ok"
           THEN /\ outFs' = Del(outFs, Located(t.name))
                /\ tasks' = [tasks EXCEPT ![i].pc = "done", ![i].out = "removed",
                                          ![i].removes = Append(t.removes, o)]
           ELSE /\ outFs' = outFs
                /\ tasks' = [tasks EXCEPT
                      ![i].attempts = n,
                      ![i].delay = IF o = "transient" THEN t.delay * 2 ELSE t.delay,
                      ![i].slept = IF o = "transient" THEN Append(t.slept, t.delay)
                                   ELSE t.slept,
                      ![i].removes = Append(t.removes, o),
                      ![i].pc = IF KeepTrying(n) THEN "remove" ELSE "done",
                      ![i].out = IF KeepTrying(n) THEN t.out ELSE "cleanup_err"]
    /\ UNCHANGED <<rkind, archive, rpc, ridx, rresult, rerr, binDir, delEnv, outExists, arcLock,
                   faults>>
    /\ UNCHANGED <<packVars, callVars>>

\* A join that does not wait.
JoinedAtOnce == TRUE

\* future::join_all(tasks).await returns once every spawned task has ended.
Joined == \A i \in DOMAIN tasks : tasks[i].pc \in {"none", "done"}

RestoreJoin ==
    /\ rpc = "join"
    /\ Joined
    /\ IF rkind = "convert"
       THEN rpc' = "sweep" /\ rresult' = rresult
       ELSE rpc' = "done" /\ rresult' = "Ok"
    /\ UNCHANGED <<rkind, archive, ridx, rerr, tasks, outFs, binDir, delEnv, outExists, arcLock,
                   faults>>
    /\ UNCHANGED <<packVars, callVars>>

\* delete_remaining_bin_files(output_folder).await? and the final Ok(()):
\* the listing, the deletion of each regular file and the removal of the
\* folder each propagate their error.
RestoreSweep ==
    /\ rpc = "sweep"
    /\ rpc' = "done"
    /\ IF ~binDir.exists
       THEN /\ rresult' = "Ok"
            /\ UNCHANGED <<rerr, binDir, faults>>
       ELSE \E fail \in (IF faults < MaxFaults
                         THEN {"none", "read_dir", "remove_file"} ELSE {"none"}) :
              \E deleted \in (IF fail = "remove_file" THEN 0..(binDir.files - 1)
                              ELSE IF fail = "read_dir" THEN {0}
                              ELSE {binDir.files}) :
                 /\ fail = "remove_file" => binDir.files > 0
                 /\ faults' = Bump(fail # "none")
                 /\ IF fail # "none"
                    THEN /\ rresult' = "Err" /\ rerr' = "sweep"
                         /\ binDir' = [binDir EXCEPT !.files = binDir.files - deleted]
                    ELSE IF binDir.subdirs > 0
                         THEN /\ rresult' = "Err" /\ rerr' = "sweep"
                              /\ binDir' = [binDir EXCEPT !.files = 0]
                         ELSE /\ rresult' = "Ok" /\ rerr' = rerr
                              /\ binDir' = NoBinDir
    /\ UNCHANGED <<rkind, archive, ridx, tasks, outFs, delEnv, outExists, arcLock>>
    /\ UNCHANGED <<packVars, callVars>>

(***************************************************************************)
(* Binary Envelope Codec, unpack side, images.                             *)
(***************************************************************************)
\* A format decided from the name's own extension only.
determine_image_format_own_extension(name) ==
    CASE Extension(name) = Some(PngExt) -> Some("Png")
      [] Extension(name) \in {Some(JpgExt), Some(JpegExt)} -> Some("Jpeg")
      [] Extension(name) = Some(GifExt) -> Some("Gif")
      [] OTHER -> None

\* determine_image_format: the extension, or for a .bin name the text after
\* the last dot of the stem, matched against the known spellings.
determine_image_format(name) ==
    LET e0 == Extension(name)
        stem == FileStem(name)
        pos == RFind(stem, ".")
        e == IF e0 = Some(BinExt) /\ pos > 0
             THEN Some(SubSeq(stem, pos + 1, Len(stem)))
             ELSE e0
    IN  CASE e \in {Some(PngExt), Some(<<"P", "n", "g">>)} -> Some("Png")
          [] e \in {Some(JpgExt), Some(JpegExt), Some(<<"J", "p", "g">>),
                    Some(<<"J", "p", "e", "g">>)} -> Some("Jpeg")
          [] e \in {Some(GifExt), Some(<<"G", "i", "f">>)} -> Some("Gif")
          [] e \in {Some(<<"w", "e", "b", "p">>), Some(<<"W", "e", "b", "p">>)}
                -> Some("WebP")
          [] e \in {Some(<<"t", "i", "f", "f">>), Some(<<"t", "i", "f">>),
                    Some(<<"T", "i", "f", "f">>), Some(<<"T", "i", "f">>)}
                -> Some("Tiff")
          [] e \in {Some(<<"b", "m", "p">>), Some(<<"B", "m", "p">>)} -> Some("Bmp")
          [] e \in {Some(<<"i", "c", "o">>), Some(<<"I", "c", "o">>)} -> Some("Ico")
          [] OTHER -> None

\* The extension the decoded image is saved with.
ImageExtension(format) ==
    CASE format = "Png" -> PngExt
      [] format = "Jpeg" -> JpgExt
      [] OTHER -> PngExt

\* The name convert_binary_to_image saves under: the stem, cut by the
\* extension when it ends with it, then ".", then the extension.
ImageOutputName(name, ext) ==
    LET stem == FileStem(name)
        cut == IF EndsWith(stem, ext) THEN SubSeq(stem, 1, Len(stem) - Len(ext))
               ELSE stem
    IN  cut \o Dot \o ext

\* Path::with_extension
WithExtension(name, ext) == FileStem(name) \o Dot \o ext

\* What img.save may write: some encoding of the decoded image, the bytes
\* read or others.
SavedImages == {PngBytes, <<137, 81>>}

\* convert_binary_to_image of image_processing.rs on the file name of the
\* folder fs: each outcome it can have.  Saving over the file that is still
\* memory-mapped succeeds on some platforms and is refused on others.
convert_binary_to_image(name, fs) ==
    LET failed == [ok |-> FALSE, fs |-> fs]
        fmt == determine_image_format(name)
        out == ImageOutputName(name, ImageExtension(fmt.v))
    IN  IF name \notin DOMAIN fs \/ Len(fs[name]) = 0 \/ ~IsImage(fs[name])
           \/ ~fmt.some
        THEN {failed}
        ELSE {[ok |-> TRUE, fs |-> Put(fs, out, d)] : d \in SavedImages}
             \cup (IF out = name THEN {failed} ELSE {})

\* convert_binary_to_image of main.rs, which is given the format.
convert_binary_to_image_main(name, format, fs) ==
    LET failed == [ok |-> FALSE, fs |-> fs]
        out == WithExtension(name, ImageExtension(format))
    IN  IF name \notin DOMAIN fs \/ Len(fs[name]) = 0 \/ ~IsImage(fs[name])
        THEN {failed}
        ELSE {[ok |-> TRUE, fs |-> Put(fs, out, d)] : d \in SavedImages}
             \cup (IF out = name THEN {failed} ELSE {})

(***************************************************************************)
(* The restorer of main.rs, decompress_and_convert_to_images: one closure  *)
(* per entry index on the thread pool, the archive reader behind a Mutex.  *)
(***************************************************************************)
\* A reader Mutex that never makes a closure wait.
ReaderFreeAlways == TRUE

\* No closure holds the Mutex<ZipArchive>.
ReaderFree == arcLock = 0

\* archive.lock().unwrap(), the first statement of the closure.
ImgLock(i) ==
    /\ rkind = "images"
    /\ rpc = "par"
    /\ tasks[i].pc = "none"
    /\ ReaderFree
    /\ arcLock' = i
    /\ tasks' = [tasks EXCEPT ![i].pc = "locked"]
    /\ UNCHANGED <<rkind, archive, rpc, ridx, rresult, rerr, outFs, binDir,
                   delEnv, outExists, faults>>
    /\ UNCHANGED <<packVars, callVars>>

\* by_index, enclosed_name, File::create and io::copy out of the entry, all
\* under the lock; each failure is printed and ends the closure, which drops
\* the guard.
ImgExtract(i) ==
    /\ tasks[i].pc = "locked"
    /\ LET e == archive[i]
       IN  IF e.fault = "access" \/ ~enclosed_name(e.name).some
           THEN /\ tasks' = [tasks EXCEPT ![i].pc = "done", ![i].out = "skipped"]
                /\ arcLock' = 0
                /\ UNCHANGED <<outFs, faults>>
           ELSE \E fail \in MayFail :
                   /\ faults' = Bump(fail)
                   /\ IF fail
                      THEN /\ tasks' = [tasks EXCEPT ![i].pc = "done",
                                                     ![i].out = "write_err"]
                           /\ arcLock' = 0
                           /\ outFs' = outFs
                      ELSE IF e.fault = "read"
                      THEN \E k \in 0..(Len(e.data) - 1) :
                              /\ outFs' = Put(outFs, Located(e.name), SubSeq(e.data, 1, k))
                              /\ tasks' = [tasks EXCEPT ![i].pc = "done",
                                             ![i].name = Located(e.name),
                                             ![i].touched = {Located(e.name)},
                                             ![i].out = "read_err"]
                              /\ arcLock' = 0
                      ELSE /\ outFs' = Put(outFs, Located(e.name), e.data)
                           /\ tasks' = [tasks EXCEPT ![i].pc = "extracted",
                                          ![i].name = Located(e.name),
                                          ![i].touched = {Located(e.name)},
                                          ![i].out = "written"]
                           /\ arcLock' = arcLock
    /\ UNCHANGED <<rkind, archive, rpc, ridx, rresult, rerr, binDir, delEnv,
                   outExists>>
    /\ UNCHANGED <<packVars, callVars>>

\* determine_image_format and convert_binary_to_image on the extracted file,
\* still under the lock, which the end of the closure releases.
ImgConvert(i) ==
    /\ tasks[i].pc = "extracted"
    /\ LET format == determine_image_format(tasks[i].name)
       IN  IF ~format.some
           THEN /\ outFs' = outFs
                /\ tasks' = [tasks EXCEPT ![i].pc = "done"]
           ELSE \E r \in convert_binary_to_image_main(tasks[i].name, format.v, outFs) :
                   /\ outFs' = r.fs
                   /\ tasks' = [tasks EXCEPT
                         ![i].pc = "done", ![i].convOk = r.ok,
                         ![i].touched = tasks[i].touched \cup Written(outFs, r.fs)]
    /\ arcLock' = 0
    /\ UNCHANGED <<rkind, archive, rpc, ridx, rresult, rerr, binDir, delEnv,
                   outExists, faults>>
    /\ UNCHANGED <<packVars, callVars>>

\* into_par_iter().for_each returns when every closure has returned.
ImgReturn ==
    /\ rkind = "images"
    /\ rpc = "par"
    /\ \A i \in DOMAIN tasks : tasks[i].pc = "done"
    /\ rpc' = "done"
    /\ rresult' = "Ok"
    /\ UNCHANGED <<rkind, archive, ridx, rerr, tasks, outFs, binDir, delEnv,
                   outExists, arcLock, faults>>
    /\ UNCHANGED <<packVars, callVars>>

NextRestore ==
    \/ RestoreBegin
    \/ RestoreEntry
    \/ RestoreLoopEnd
    \/ \E i \in DOMAIN tasks : TaskWrite(i)
    \/ \E i \in DOMAIN tasks : TaskConvert(i)
    \/ \E i \in DOMAIN tasks : TaskRemove(i)
    \/ RestoreJoin
    \/ RestoreSweep

NextImages ==
    \/ \E i \in DOMAIN tasks : ImgLock(i)
    \/ \E i \in DOMAIN tasks : ImgExtract(i)
    \/ \E i \in DOMAIN tasks : ImgConvert(i)
    \/ ImgReturn

(***************************************************************************)
(* Format Classifier, unpack side.                                         *)
(***************************************************************************)
\* determine_file_type: for a .bin name the ending of the stem, otherwise
\* the extension.
determine_file_type(name) ==
    LET extension == Extension(name)
        stem == FileStem(name)
    IN  IF extension = Some(BinExt)
        THEN CASE EndsWith(stem, Dot \o TxtExt) -> "Text"
               [] \E e \in {Mp4Ext, AviExt, MovExt} : EndsWith(stem, Dot \o e)
                     -> "Video"
               [] \E e \in {Mp3Ext, WavExt} : EndsWith(stem, Dot \o e) -> "Audio"
               [] \E e \in {PngExt, JpgExt, JpegExt} : EndsWith(stem, Dot \o e)
                     -> "Image"
               [] OTHER -> "Other"
        ELSE CASE extension \in {Some(TxtExt), Some(JsonExt)} -> "Text"
               [] extension \in {Some(Mp4Ext), Some(AviExt), Some(MovExt)} -> "Video"
               [] extension \in {Some(Mp3Ext), Some(WavExt)} -> "Audio"
               [] extension \in {Some(PngExt), Some(JpgExt), Some(JpegExt)}
                     -> "Image"
               [] OTHER -> "Other"

(***************************************************************************)
(* The functions of the pipeline called on their own.                      *)
(***************************************************************************)
\* Largest absolute value of a requested compression level.
MaxLevel == 100

Algorithms == {"Zstd", "Bzip2", "Deflated", "zstd", "Bogus", ""}
Levels == (0 - MaxLevel)..MaxLevel

\* File names: a stem, then nothing, an extension, or an extension and .bin.
CallStems == {<<"p">>, <<"m", "y", "t", "x", "t">>, <<"p", ".", "q">>}
CallExts ==
    {PngExt, JpgExt, JpegExt, GifExt, TxtExt, JsonExt, DatExt, Mp4Ext, AviExt,
     MovExt, Mp3Ext, WavExt, BinExt, <<"P", "n", "g">>, <<"P", "N", "G">>,
     <<"T", "x", "t">>, <<"b", "m", "p">>}
CallNames ==
    CallStems
    \cup {s \o Dot \o e : s \in CallStems, e \in CallExts}
    \cup {s \o Dot \o e \o Dot \o BinExt : s \in CallStems, e \in CallExts}
    \cup {Dot \o BinExt, Dot \o PngExt \o Dot \o BinExt}

CallFiles == {f \in SourceCatalogue : f.kind = "file"}
CallContents == {PngBytes, <<72, 105>>, <<>>}

Calls ==
    {[NoCall EXCEPT !.fn = f, !.alg = a, !.lvl = l] :
        f \in {"get_compression_method", "main::get_compression_method"},
        a \in Algorithms, l \in Levels}
    \cup {[NoCall EXCEPT !.fn = "get_file_type", !.name = e] :
            e \in CallExts \cup {<<>>}}
    \cup {[NoCall EXCEPT !.fn = "file_type_matches", !.name = n, !.ft = t] :
            n \in CallNames, t \in FileType}
    \cup {[NoCall EXCEPT !.fn = f, !.name = n] :
            f \in {"determine_image_format", "determine_text_format",
                   "determine_file_type"},
            n \in CallNames}
    \cup {[NoCall EXCEPT !.fn = f, !.file = x] :
            f \in {"image_to_binary_file", "text_to_binary_file"},
            x \in CallFiles}
    \cup {[NoCall EXCEPT !.fn = f, !.file = [NoFile EXCEPT !.name = n, !.data = d]] :
            f \in {"convert_binary_to_image", "main::convert_binary_to_image",
                   "convert_binary_to_text"},
            n \in CallNames, d \in CallContents}

InitCall ==
    /\ call \in Calls
    /\ ret = NoRet
    /\ PackIdle
    /\ RestoreIdle
    /\ faults = 0

\* The call of fn returns v.
Return(fn, v) ==
    /\ call.fn = fn
    /\ ~ret.set
    /\ ret' = [set |-> TRUE, v |-> v]
    /\ UNCHANGED <<call, packVars, restoreVars, faults>>

\* The folder a decoder is called on: the one file of the call.
CallFolder == Put(<<>>, call.file.name, call.file.data)

CallCodec == Return("get_compression_method",
                    get_compression_method(call.alg, call.lvl))
CallCodecMain == Return("main::get_compression_method",
                        get_compression_method_main(call.alg, call.lvl))
CallGetFileType == Return("get_file_type", get_file_type(call.name))
CallFileTypeMatches == Return("file_type_matches",
                              file_type_matches(call.name, call.ft))
CallImageFormat == Return("determine_image_format",
                          determine_image_format(call.name))
CallTextFormat == Return("determine_text_format",
                         determine_text_format(call.name))
CallFileType == Return("determine_file_type", determine_file_type(call.name))
CallImageToBinary == Return("image_to_binary_file",
                            image_to_binary_file(call.file))
CallTextToBinary == Return("text_to_binary_file",
                           text_to_binary_file(call.file))
CallBinaryToImage == Return("convert_binary_to_image",
                            convert_binary_to_image(call.file.name, CallFolder))
CallBinaryToText == Return("convert_binary_to_text",
                           convert_binary_to_text(call.file.name, CallFolder))
\* main.rs:93-95: determine_image_format, then convert_binary_to_image.
CallBinaryToImageMain ==
    LET format == determine_image_format(call.file.name)
    IN  Return("main::convert_binary_to_image",
               IF format.some
               THEN convert_binary_to_image_main(call.file.name, format.v, CallFolder)
               ELSE {[ok |-> FALSE, fs |-> CallFolder]})

NextCall ==
    \/ CallCodec
    \/ CallCodecMain
    \/ CallGetFileType
    \/ CallFileTypeMatches
    \/ CallImageFormat
    \/ CallTextFormat
    \/ CallFileType
    \/ CallImageToBinary
    \/ CallTextToBinary
    \/ CallBinaryToImage
    \/ CallBinaryToText
    \/ CallBinaryToImageMain

SpecCall == InitCall /\ [][NextCall]_vars

\* main: the pack has returned Ok, zip.finish() closes the archive, and the
\* archive is restored into a fresh output folder by the restorer of the
\* same mode.
Finish ==
    /\ ppc = "returned"
    /\ packResult = "Ok"
    /\ rpc = "idle"
    /\ rkind' = IF mode = "binary" THEN "images" ELSE mode
    /\ archive' = [i \in 1..Len(zipEntries) |->
                     [name |-> zipEntries[i].name, data |-> zipEntries[i].data,
                      fault |-> "none"]]
    /\ rpc' = "begin"
    /\ tasks' = [i \in 1..Len(zipEntries) |-> NoTask]
    /\ UNCHANGED <<ridx, rresult, rerr, outFs, binDir, delEnv, outExists,
                   arcLock, faults>>
    /\ UNCHANGED <<packVars, callVars>>

NextPack ==
    \/ PackSetup
    \/ \E w \in Workers : WorkerConvert(w)
    \/ \E w \in Workers : WorkerResolve(w)
    \/ \E w \in Workers : WorkerLock(w)
    \/ \E w \in Workers : WorkerStartFile(w)
    \/ \E w \in Workers : WorkerCopy(w)
    \/ PackReturn

InitPack == InitPackOn(SourceDirs, PackModes, FileType, CompressionSpecs)

\* Every pack run.
SpecPack == InitPack /\ [][NextPack]_vars

\* The same runs, with the rayon pool never leaving a closure that can take
\* a step unscheduled for ever.
FairCatalogue == {a_png, a_png_bin, u_dat}
FairDirs == {d \in SUBSET FairCatalogue : Cardinality(d) <= MaxFiles}
InitFair ==
    InitPackOn(FairDirs, PackModes, {"Other"}, {[algorithm |-> "Zstd", level |-> 99]})
SpecPackFair == InitFair /\ [][NextPack]_vars /\ WF_vars(NextPack)

\* main of main.rs: add_binary_files_to_zip on a folder of images and other
\* files, then zip.finish().  main runs its statements one after the other
\* and the pool runs every closure, so no step that can be taken waits for
\* ever.
MainCatalogue == ValidPngs \cup {a_txt, u_png}
MainDirs == {d \in SUBSET MainCatalogue : Cardinality(d) <= MaxFiles}
InitMain == InitPackOn(MainDirs, {"binary"}, {"Other"}, CompressionSpecs)
SpecMain == InitMain /\ [][NextPack \/ Finish]_vars /\ WF_vars(NextPack \/ Finish)

InitBroken ==
    InitPackOn(BrokenFolders, {"convert"}, {"Image", "Other"},
               {[algorithm |-> "Zstd", level |-> 99]})

\* The pack with conversion of the folder holding broken.png.
SpecBroken == InitBroken /\ [][NextPack]_vars

InitRestore ==
    /\ PackIdle
    /\ faults = 0
    /\ InitRestoreOn(RestoreKinds, Archives, RestoreEnvs)
    /\ CallIdle

\* Every restore, of any archive.
SpecRestore == InitRestore /\ [][NextRestore \/ NextImages]_vars

\* Every restorer on an archive whose names are paths, into a fresh output
\* folder or one that has a binary_files folder with files.
InitPaths ==
    /\ PackIdle
    /\ faults = 0
    /\ InitRestoreOn(RestoreKinds, PathArchives,
                     {PlainEnv, [del |-> "ok", bin |-> [exists |-> TRUE, files |-> 2,
                                                         subdirs |-> 0]]})
    /\ CallIdle
SpecPaths == InitPaths /\ [][NextRestore \/ NextImages]_vars

InitAlike ==
    /\ PackIdle
    /\ faults = 0
    /\ InitRestoreOn({"convert"}, AlikeArchives, {PlainEnv})
    /\ CallIdle

\* The converting restore of archives of AlikeCatalogue.
SpecAlike == InitAlike /\ [][NextRestore]_vars

Init ==
    InitPackOn(SourceDirs, PackModes, FileType,
               {[algorithm |-> "Zstd", level |-> 99]})

Next == NextPack \/ Finish \/ NextRestore \/ NextImages

\* A folder packed, and the archive then restored.
Spec == Init /\ [][Next]_vars


(***************************************************************************)
(* Properties.                                                             *)
(***************************************************************************)
Envelope(n) == n \o Dot \o BinExt

\* The extension a restored file is expected under: its own, PNG for an
\* image that is neither PNG nor JPEG.
RestoredExtension(n) ==
    LET e == Extension(n)
    IN  IF e.some /\ get_file_type(e.v) = "Image" /\ e.v \notin {PngExt, JpgExt, JpegExt}
        THEN Some(PngExt) ELSE e

\* C1: round trip.  After a pack with conversion and a restore with
\* conversion, without any I/O failure, the output folder holds, for every
\* source file that was archived, a file with the same bytes under the
\* source file's extension.
C1_RoundTrip ==
    (mode = "convert" /\ rkind = "convert" /\ rpc = "done" /\ rresult = "Ok"
        /\ faults = 0)
    => \A f \in entries :
          wout[f.name] = "added"
          => \E g \in DOMAIN outFs :
                /\ Extension(g) = RestoredExtension(f.name)
                /\ (RestoredExtension(f.name) = Extension(f.name) => outFs[g] = f.data)

\* C2: mutual exclusion on the shared archive writer.  At most one worker is
\* between taking the lock and the end of its copy, and a worker that has
\* started its entry still owns the entry the writer is writing (no other
\* worker's start_file came in between).
C2_MutualExclusion ==
    /\ Cardinality({w \in Workers : wpc[w] \in {"locked", "started"}}) <= 1
    /\ \A w \in Workers :
          wpc[w] = "started"
          => Len(zipEntries) > 0 /\ zipEntries[Len(zipEntries)].src = w

\* One worker is writing its entry while another waits for the lock.
C2_Witness ==
    \E w1, w2 \in Workers :
        w1 # w2 /\ wpc[w1] = "started" /\ wpc[w2] = "resolved"

FailedOutcomes == {"convert_err", "codec_err", "start_err", "open_err", "copy_err"}

\* C3: per-entry failure isolation on the pack path.  A worker whose entry
\* failed at any step has left no entry in the archive, and the packer
\* returns only after every entry has been processed.
C3_PackFailureIsolation ==
    /\ \A w \in Workers :
          (wpc[w] = "done" /\ wout[w] \in FailedOutcomes)
          => \A i \in 1..Len(zipEntries) : zipEntries[i].src # w
    /\ (ppc = "returned" /\ packResult = "Ok") => \A w \in Workers : wpc[w] = "done"

ConversionErrors == Cardinality({w \in Workers : wout[w] = "convert_err"})

BrokenHasBytes == \E f \in entries : f.name = broken_png /\ Len(f.data) > 0

C5_DeleteOnlyConverted ==
    \A i \in DOMAIN tasks : tasks[i].out = "removed" => tasks[i].convOk

IsTextName(n) == ExtOrDefault(n) \in {TxtExt, JsonExt}

\* C6: restored text survives.  After a successful restore with conversion,
\* on a platform that deletes at once and without any I/O failure, every
\* readable entry named *.txt or *.json is in the output folder under its
\* name, holding the lossy decoding of its bytes.
C6_TextSurvives ==
    (rkind = "convert" /\ rpc = "done" /\ rresult = "Ok" /\ faults = 0
        /\ delEnv = "ok")
    => \A i \in 1..Len(archive) :
          (archive[i].fault = "none" /\ IsTextName(archive[i].name))
          => /\ archive[i].name \in DOMAIN outFs
             /\ outFs[archive[i].name] = from_utf8_lossy(archive[i].data)

\* C7: envelope lifecycle.  After a successful restore with conversion no
\* file named *.bin is left in the output folder.
C7_NoEnvelopeLeft ==
    (rkind = "convert" /\ rpc = "done" /\ rresult = "Ok")
    => \A n \in DOMAIN outFs : Extension(n) # Some(BinExt)

\* C8: per-entry failure isolation on the restore path.  Whatever went wrong
\* with other entries, once a restorer that had opened the archive has ended,
\* every sound entry of the archive has been handed to a unit of work.
C8_RestoreFailureIsolation ==
    (rpc = "done" /\ rerr \notin {"create_dir", "open"})
    => \A i \in 1..Len(archive) :
          archive[i].fault = "none" => tasks[i].pc # "none"

\* C9: a restore returns an error only for a failure to create the output
\* folder or to open the archive.
C9_ErrorOnlyAtOpen ==
    rresult = "Err" => rerr \in {"create_dir", "open"}

\* C10: join before completion.  While the cleanup sweeper runs, and once the
\* restore has returned success, no spawned unit of work is still running.
C10_JoinBeforeCompletion ==
    (rpc = "sweep" \/ rresult = "Ok")
    => \A i \in DOMAIN tasks : tasks[i].pc \in {"none", "done"}

\* A restore has returned success after units of work ran to their end, one
\* of them through the conversion and the deletion.
C10_Witness ==
    /\ rresult = "Ok"
    /\ \E i, j \in DOMAIN tasks :
          i # j /\ tasks[i].out = "removed" /\ tasks[j].pc = "done"

\* The results of the remove_file calls a task has made were all the
\* transient-lock error.
AllTransient(t) ==
    /\ t.removes # <<>>
    /\ \A k \in DOMAIN t.removes : t.removes[k] = "transient"

\* A restore of the converting restorer that met no failure but those of
\* remove_file has returned.
CleanupOnlyRun ==
    rpc = "done" /\ rkind = "convert" /\ faults = 0 /\ ~binDir.exists

\* C11: when every deletion of a converted file fails with the
\* transient-lock error, convert_and_cleanup_json_file calls remove_file
\* exactly 5 times, sleeps 100, 200, 400, 800 and 1600 ms in that order and
\* returns a cleanup failure; no task ever makes a sixth call, and the
\* restore still returns Ok.
C11_RetryBound ==
    /\ \A i \in DOMAIN tasks :
          /\ Len(tasks[i].removes) <= 5
          /\ (tasks[i].pc = "done" /\ AllTransient(tasks[i]))
                => /\ Len(tasks[i].removes) = 5
                   /\ tasks[i].slept = <<100, 200, 400, 800, 1600>>
                   /\ tasks[i].out = "cleanup_err"
    /\ (CleanupOnlyRun /\ delEnv = "locked") => rresult = "Ok"

C11_Witness ==
    /\ rpc = "done"
    /\ rresult = "Ok"
    /\ \E i \in DOMAIN tasks :
          /\ AllTransient(tasks[i])
          /\ tasks[i].slept = <<100, 200, 400, 800, 1600>>
          /\ tasks[i].out = "cleanup_err"

\* C12: a deletion error other than the transient-lock error is the last
\* call of remove_file the task makes: the task ends there with a cleanup
\* failure and has slept only once per transient error before it; the
\* restore returns Ok and every other entry that could be read was handled.
C12_NoRetryAfterOtherError ==
    /\ \A i \in DOMAIN tasks : \A k \in DOMAIN tasks[i].removes :
          tasks[i].removes[k] = "other"
            => /\ k = Len(tasks[i].removes)
               /\ tasks[i].pc = "done"
               /\ tasks[i].out = "cleanup_err"
               /\ Len(tasks[i].slept) = k - 1
    /\ (CleanupOnlyRun /\ delEnv \in {"denied", "busy_denied"})
          => /\ rresult = "Ok"
             /\ \A i \in DOMAIN tasks :
                   archive[i].fault = "none" => tasks[i].out # "none"

C12_Witness ==
    /\ rpc = "done"
    /\ rresult = "Ok"
    /\ \E i, j \in DOMAIN tasks :
          /\ i # j
          /\ tasks[i].removes = <<"other">>
          /\ tasks[i].slept = <<>>
          /\ tasks[j].out \in {"written", "cleanup_err"}

\* C13: a pack run returns otherwise than with Ok only from its
\* directory-level steps (creating the output folder, reading the source
\* folder), that is before any closure has begun; nothing that happens to
\* one directory entry makes the run return an error or abort.
C13_OnlyDirectoryLevelErrors ==
    (ppc = "returned" /\ packResult # "Ok")
       => /\ packResult = "Err"
          /\ \A w \in Workers : wpc[w] = "new"

\* The requested algorithm is none of Zstd, Bzip2, Deflated.
UnknownAlgorithm == cspec.algorithm \notin {"Zstd", "Bzip2", "Deflated"}

\* C14: with an unknown algorithm name no closure takes the archive writer
\* lock, the archive receives no entry, and a run that got past its
\* directory-level steps returns Ok.
C14_UnknownAlgorithmSkipsAll ==
    UnknownAlgorithm
       => /\ zipLock = NoWorker
          /\ zipEntries = <<>>
          /\ \A w \in Workers : wpc[w] \in {"new", "converted", "done"}
          /\ (ppc = "returned" /\ packResult # "Err") => packResult = "Ok"

\* A call of the codec selector (either copy) has returned.
CodecReturned ==
    /\ call.fn \in {"get_compression_method", "main::get_compression_method"}
    /\ ret.set

\* The levels each algorithm accepts and the level it falls back to.
AcceptedLevels(alg) == IF alg = "Zstd" THEN (0 - 7)..22 ELSE 0..9
FallbackLevel(alg) == IF alg = "Zstd" THEN 3 ELSE 6

\* C15: for Zstd get_compression_method returns the requested level when it
\* is in -7..22 and 3 otherwise, for Bzip2 and Deflated the requested level
\* when it is in 0..9 and 6 otherwise, and the codec returned is the one
\* named.
C15_LevelClamping ==
    (CodecReturned /\ call.alg \in {"Zstd", "Bzip2", "Deflated"})
       => /\ ret.v.method = call.alg
          /\ ret.v.level = IF call.lvl \in AcceptedLevels(call.alg)
                           THEN call.lvl ELSE FallbackLevel(call.alg)

C15_Witness ==
    /\ CodecReturned
    /\ call.alg = "Zstd"
    /\ call.lvl = 99
    /\ ret.v.level = 3

\* C16: get_compression_method returns an error exactly when the algorithm
\* name is none of "Zstd", "Bzip2", "Deflated", whatever the level.
C16_ErrorIffUnknownName ==
    CodecReturned => (ret.v.ok <=> call.alg \in {"Zstd", "Bzip2", "Deflated"})

C16_Witness ==
    /\ CodecReturned
    /\ call.alg = "zstd"
    /\ call.lvl = 3
    /\ ~ret.v.ok

\* C17: for every readable source file, image_to_binary_file and
\* text_to_binary_file succeed and write the file's bytes unchanged under
\* the file's name followed by .bin.
C17_EnvelopeEncoding ==
    (/\ call.fn \in {"image_to_binary_file", "text_to_binary_file"}
     /\ ret.set
     /\ call.file.readable)
       => /\ ret.v.ok
          /\ ret.v.name = call.file.name \o Dot \o BinExt
          /\ ret.v.data = call.file.data

\* The envelope decoders and the extensions the pack side wraps for each.
ImageDecoders == {"convert_binary_to_image", "main::convert_binary_to_image"}
WrappedExts(fn) == IF fn \in ImageDecoders THEN {PngExt, JpgExt} ELSE {TxtExt}

\* The call decodes the envelope <n>.bin of a file name n with a recognized
\* extension.
DecodesEnvelopeOf(n) ==
    /\ call.fn \in ImageDecoders \cup {"convert_binary_to_text"}
    /\ ret.set
    /\ call.file.name = n \o Dot \o BinExt
    /\ Extension(n).some
    /\ Extension(n).v \in WrappedExts(call.fn)

\* C18: decoding the envelope <n>.bin writes the reconstructed file under
\* exactly the name n.
C18_NameRoundTrip ==
    \A n \in CallNames :
       DecodesEnvelopeOf(n)
         => \A r \in ret.v : r.ok => DOMAIN r.fs = {call.file.name, n}

\* The text the claim says the format is decided from: for a name ending in
\* .bin the text after the last dot of the name without .bin, otherwise the
\* name's own extension.
EndsInBin(name) == EndsWith(name, Dot \o BinExt)
WithoutBin(name) == SubSeq(name, 1, Len(name) - 4)
DecidingText(name) ==
    IF EndsInBin(name)
    THEN Some(SubSeq(WithoutBin(name), RFind(WithoutBin(name), ".") + 1,
                     Len(WithoutBin(name))))
    ELSE Extension(name)

\* The names the statement covers: with .bin stripped a dot must be left.
Covered(name) == EndsInBin(name) => RFind(WithoutBin(name), ".") > 0

ImageFormatOf(e) ==
    CASE ~e.some -> None
      [] e.v \in {PngExt, <<"P", "n", "g">>} -> Some("Png")
      [] e.v \in {JpgExt, JpegExt, <<"J", "p", "g">>, <<"J", "p", "e", "g">>}
            -> Some("Jpeg")
      [] e.v \in {GifExt, <<"G", "i", "f">>} -> Some("Gif")
      [] e.v \in {<<"w", "e", "b", "p">>, <<"W", "e", "b", "p">>} -> Some("WebP")
      [] e.v \in {<<"t", "i", "f", "f">>, <<"t", "i", "f">>, <<"T", "i", "f", "f">>,
                  <<"T", "i", "f">>} -> Some("Tiff")
      [] e.v \in {<<"b", "m", "p">>, <<"B", "m", "p">>} -> Some("Bmp")
      [] e.v \in {<<"i", "c", "o">>, <<"I", "c", "o">>} -> Some("Ico")
      [] OTHER -> None

TextFormatOf(e) ==
    CASE ~e.some -> None
      [] e.v \in {TxtExt, <<"T", "x", "t">>} -> Some(TxtExt)
      [] e.v \in {JsonExt, <<"J", "s", "o", "n">>} -> Some(JsonExt)
      [] OTHER -> None

\* C19: determine_image_format and determine_text_format decide from the
\* text after the last dot of the name with .bin stripped when the name ends
\* in .bin, and from the name's own extension otherwise.
C19_ExtensionRecovery ==
    (ret.set /\ Covered(call.name))
       => /\ call.fn = "determine_image_format"
                => ret.v = ImageFormatOf(DecidingText(call.name))
          /\ call.fn = "determine_text_format"
                => ret.v = TextFormatOf(DecidingText(call.name))

C19_Witness ==
    /\ call.fn = "determine_image_format"
    /\ call.name = <<"p">> \o Dot \o PngExt \o Dot \o BinExt
    /\ ret.set
    /\ ret.v = Some("Png")

\* The type the statement gives an extension.
StatedType(e) ==
    CASE e \in {PngExt, JpgExt} -> "Image"
      [] e \in {Mp4Ext, AviExt} -> "Video"
      [] e \in {Mp3Ext, WavExt} -> "Audio"
      [] e = TxtExt -> "Text"
      [] OTHER -> "Other"

\* C20: get_file_type gives png and jpg Image, mp4 and avi Video, mp3 and
\* wav Audio, txt Text and every other extension Other, and
\* file_type_matches accepts a name for a type other than Other exactly
\* when its extension is of that type.
C20_PackSideClassification ==
    ret.set
       => /\ call.fn = "get_file_type" => ret.v = StatedType(call.name)
          /\ (call.fn = "file_type_matches" /\ call.ft # "Other")
                => (ret.v <=> /\ Extension(call.name).some
                              /\ StatedType(Extension(call.name).v) = call.ft)

\* C21: determine_file_type gives the envelope n.bin the kind it gives the
\* name n, for every file name n.
C21_EnvelopeClassifiedAsOriginal ==
    (call.fn = "determine_file_type" /\ ret.set)
       => determine_file_type(call.name \o Dot \o BinExt) = ret.v

\* C22: the restore of an archive without entries goes from its first step
\* straight to its end: it creates the output folder, spawns no unit of
\* work, leaves every file and the binary_files folder as they were (the
\* sweeper does not run) and returns Ok.
C22_EmptyArchive ==
    /\ []((Len(archive) = 0 /\ rpc = "done" /\ rresult = "Ok")
            => (outExists /\ outFs = <<>> /\ tasks = <<>>))
    /\ [][(rpc = "begin" /\ Len(archive) = 0)
            => /\ rpc' = "done"
               /\ binDir' = binDir
               /\ outFs' = outFs
               /\ tasks' = tasks
               /\ rerr' = "none" => (rresult' = "Ok" /\ outExists')]_vars

C22_Witness ==
    /\ Len(archive) = 0
    /\ rpc = "done"
    /\ rresult = "Ok"
    /\ outExists
    /\ binDir = [exists |-> TRUE, files |-> 2, subdirs |-> 0]

\* The converting restore has run its trailing pass, and no failure was
\* injected into the run.
SweeperHasRun ==
    /\ rkind = "convert"
    /\ rpc = "done"
    /\ Len(archive) > 0
    /\ faults = 0

\* C23: after the trailing pass no regular file is left directly in
\* binary_files, the folder is still there only if it holds a subdirectory,
\* and the pass has reported no error.
C23_Sweeper ==
    SweeperHasRun
       => /\ binDir.files = 0
          /\ binDir.exists => binDir.subdirs > 0
          /\ rresult = "Ok"

\* C24: a worker holds the archive writer lock only between taking it and
\* the end of the copy; while it converts its file or resolves the codec
\* (before, and at, the positions "new" and "converted") it does not hold
\* the lock, so another worker's conversion never waits for the lock.
C24_LockScope ==
    \A w \in Workers :
       /\ zipLock = w => wpc[w] \in {"locked", "started"}
       /\ wpc[w] \in {"new", "converted", "resolved", "done"} => zipLock # w

\* One worker holds the lock in the middle of its copy while another, whose
\* file is selected and convertible, is at the position where its
\* conversion is the next step: that step has no guard on the lock.
C24_Witness ==
    /\ ppc = "running"
    /\ \E w1, w2 \in Workers :
          /\ w1 # w2
          /\ zipLock = w1
          /\ wpc[w1] = "started"
          /\ wpc[w2] = "new"
          /\ Selected(EntryOf(w2))
          /\ Prepared(EntryOf(w2)).ok

\* C25: under a fair schedule every pack run comes to its end (a return or
\* a resumed panic), and a worker that holds the archive writer lock gives
\* it up, whichever way its closure ends: copy done, source not opened,
\* copy failed, entry not started.
C25_PackTerminates ==
    /\ <>(ppc = "returned")
    /\ (zipLock # NoWorker) ~> (zipLock = NoWorker)
    /\ [](ppc = "returned" => zipLock = NoWorker)

\* One worker's closure has ended on a failure after it took the lock, and
\* another worker holds the lock now.
C25_Witness ==
    \E w1, w2 \in Workers :
       /\ w1 # w2
       /\ wpc[w1] = "done"
       /\ wout[w1] \in {"start_err", "open_err", "copy_err"}
       /\ zipLock = w2

\* The direct packer has returned and no closure ended on an error or a
\* panic.
DirectRunWithoutFailure ==
    /\ mode = "direct"
    /\ ppc = "returned"
    /\ packResult = "Ok"
    /\ \A w \in Workers : wout[w] \in {"added", "skipped"}

RegularFiles == {f \in entries : f.kind = "file"}

\* C26: after a direct pack run in which no step failed, the archive holds
\* one entry per regular file of the source folder, under the file's name
\* and with the file's bytes, and nothing else (no entry for a
\* subdirectory); which entries it holds does not depend on the order in
\* which the workers ran.
C26_DirectCompleteness ==
    DirectRunWithoutFailure =>
       /\ Len(zipEntries) = Cardinality(RegularFiles)
       /\ {[name |-> zipEntries[i].name, data |-> zipEntries[i].data] :
              i \in 1..Len(zipEntries)}
            = {[name |-> f.name, data |-> f.data] : f \in RegularFiles}

\* Such a run on a folder holding a file with bytes and a subdirectory.
C26_Witness ==
    /\ DirectRunWithoutFailure
    /\ \E f \in entries : f.kind = "dir"
    /\ \E f \in entries : f.kind = "file" /\ f.data # <<>>
    /\ Len(zipEntries) = 1

\* The converting packer has returned and no closure ended on an error or
\* a panic.
ConvertRunWithoutFailure ==
    /\ mode = "convert"
    /\ ppc = "returned"
    /\ packResult = "Ok"
    /\ \A w \in Workers : wout[w] \in {"added", "skipped"}

Unrecognized(f) ==
    f.kind = "file" /\ get_file_type(ExtOrDefault(f.name)) \notin {"Image", "Text"}

\* C27: whatever file_type was requested, after a converting pack run in
\* which no step failed, every regular file the classifier takes for
\* neither an image nor a text is in the archive under its own name with
\* its own bytes.
C27_UnrecognizedKept ==
    ConvertRunWithoutFailure =>
       \A f \in entries :
          Unrecognized(f) =>
             \E i \in 1..Len(zipEntries) :
                zipEntries[i].name = f.name /\ zipEntries[i].data = f.data

\* C28: the archive reader has one user at a time.  In the two async
\* restorers only the loop reads it, at the index ridx: a unit of work
\* exists only for an index the loop has gone past, and it carries the
\* whole of that entry's bytes and its name in a buffer of its own.  In the
\* images restorer a closure is between taking an entry and its end only
\* while it holds the reader lock, so at most one is.
C28_ReaderNotShared ==
    /\ rkind \in {"convert", "direct"} =>
          /\ arcLock = 0
          /\ \A i \in DOMAIN tasks :
                tasks[i].pc # "none" =>
                   /\ i < ridx
                   /\ tasks[i].buffer = archive[i].data
                   /\ tasks[i].name = archive[i].name
    /\ rkind = "images" =>
          /\ arcLock \in {0} \cup DOMAIN tasks
          /\ \A i \in DOMAIN tasks :
                tasks[i].pc \in {"locked", "extracted"} <=> arcLock = i

\* One closure of the images restorer has extracted its entry and still
\* holds the reader lock while another has not been able to start.
C28_Witness ==
    /\ rkind = "images"
    /\ \E i, j \in DOMAIN tasks :
          /\ i # j
          /\ arcLock = i
          /\ tasks[i].pc = "extracted"
          /\ tasks[j].pc = "none"

\* C29: in convert mode two different source files never get the same
\* intermediate file in the conversion output folder (which is also the
\* name of their archive entries).
C29_NoIntermediateCollision ==
    mode = "convert" =>
       \A w1, w2 \in Workers :
          (w1 # w2 /\ wfile[w1] # <<>> /\ wfile[w2] # <<>>)
             => wfile[w1] # wfile[w2]

\* C30: the units of work of two entries with different names never write
\* or delete the same file of the output folder.
C30_DisjointUnitsOfWork ==
    rkind = "convert" =>
       \A i, j \in DOMAIN tasks :
          (i # j /\ archive[i].name # archive[j].name)
             => tasks[i].touched \cap tasks[j].touched = {}

\* The file an entry name stands for lies outside the output folder.
Escapes(name) == ~Inside(Located(name))

\* C31: every file of which a restore has made or changed the content, and
\* every file a unit of work has written or deleted, lies in the output
\* folder or below it; for an entry whose name leads out of the folder (a
\* root, or ".." components beyond the folder) nothing is written: it has no
\* unit of work, or its closure ended as skipped.
C31_Confinement ==
    /\ \A n \in DOMAIN outFs : Inside(n)
    /\ \A i \in DOMAIN tasks :
          /\ \A n \in tasks[i].touched : Inside(n)
          /\ Escapes(archive[i].name) =>
                /\ tasks[i].touched = {}
                /\ tasks[i].buffer = <<>>
                /\ tasks[i].out \in {"none", "skipped"}

\* A restore has ended on an archive with an entry whose name leads out of
\* the folder and an entry whose name goes through ".." and stays inside:
\* the first left no trace, the second was written.
C31_Witness ==
    /\ rpc = "done"
    /\ \E i, j \in DOMAIN tasks :
          /\ Escapes(archive[i].name)
          /\ tasks[i].touched = {}
          /\ archive[j] = z_d_up_c_txt
          /\ tasks[j].touched # {}
    /\ outFs # <<>>

\* zip.finish() has been called.
Finished == rpc # "idle"

\* C32: in main the archive is finished only when the pack step has
\* returned Ok with every closure at its end and the writer lock free;
\* once it is finished no entry is started, no byte copied and finish is
\* not called again; and every run whose pack step returns Ok comes to
\* finish.
C32_FinishAfterWriters ==
    /\ [](Finished => /\ ppc = "returned"
                      /\ packResult = "Ok"
                      /\ zipLock = NoWorker
                      /\ \A w \in Workers : wpc[w] = "done")
    /\ [][Finished => /\ zipEntries' = zipEntries
                      /\ wpc' = wpc
                      /\ Finished']_vars
    /\ (ppc = "returned" /\ packResult = "Ok") ~> Finished

\* main has finished an archive into which two workers wrote an entry each.
C32_Witness ==
    /\ mode = "binary"
    /\ Finished
    /\ Len(zipEntries) = 2
    /\ \A w \in Workers : wpc[w] = "done"

=============================================================================
